---- MODULE Spec2Model ----
(***************************************************************************)
(* Model of the log extraction pipeline of log_analytics:                  *)
(*   extractor/log_file_base.py  (LogFileBase: export_tsv, _init_entity,    *)
(*                                __convert_log_into_array)                *)
(*   extractor/rails/{controller,metrics,model}.py (extract_additional_data)*)
(*   tasks.py                    (the log file name pattern)                *)
(*                                                                         *)
(* Strings are sequences of one-character strings, so that the regular      *)
(* expressions of the source are computed on characters.                    *)
(***************************************************************************)
EXTENDS Integers, Sequences, FiniteSets, TLC

(***************************************************************************)
(* Characters and character classes of Python's re module.                  *)
(***************************************************************************)
Digits == {"0", "1", "2", "3", "4", "5", "6", "7", "8", "9"}

Whitespace == {" ", "\n", "\t"}

IsLetter(ch) ==
  ch \in {"A", "B", "C", "D", "E", "F", "G", "I", "J", "L", "M", "N", "O", "P",
          "R", "S", "U", "V", "W", "a", "c", "d", "e", "g", "h", "i", "l", "m",
          "n", "o", "p", "r", "s", "t", "u", "v", "w", "x"}

\* Optional values: None of Python is the empty tuple and a present value v
\* is the one-element tuple Some(v), so that the two always compare.
None == <<>>

Some(v) == <<v>>

\* The value inside a present optional value.
Val(o) == o[1]

\* s[a..b], empty when b < a.
Slice(s, a, b) == [k \in 1..(b - a + 1) |-> s[a + k - 1]]

\* The literal w occurs in s starting at position i.
MatchLit(s, i, w) ==
  /\ i >= 1
  /\ i + Len(w) - 1 <= Len(s)
  /\ \A k \in 1..Len(w) : s[i + k - 1] = w[k]

\* Python's `w in s` for strings.
Contains(s, w) == \E i \in 1..(Len(s) + 1) : MatchLit(s, i, w)

\* Last position of the maximal run of characters of class cls that starts
\* at position i (i - 1 when the run is empty): a greedy cls* from i.
RunEnd(s, i, cls) ==
  LET ends == {e \in (i - 1)..Len(s) : \A k \in i..e : s[k] \in cls}
  IN  CHOOSE e \in ends : \A f \in ends : f <= e

\* int() of a string of decimal digits.
RECURSIVE DigitsToInt(_)
DigitsToInt(ds) ==
  IF ds = <<>> THEN 0
  ELSE LET d == ds[Len(ds)]
           v == CHOOSE n \in 0..9 :
                  <<"0", "1", "2", "3", "4", "5", "6", "7", "8", "9">>[n + 1] = d
       IN  10 * DigitsToInt(Slice(ds, 1, Len(ds) - 1)) + v

Min(S) == CHOOSE x \in S : \A y \in S : x <= y

(***************************************************************************)
(* Words of the log format.                                                 *)
(***************************************************************************)
W_Controller == <<"C", "o", "n", "t", "r", "o", "l", "l", "e", "r">>
W_INFO == <<"I", "N", "F", "O">>
W_DEBUG == <<"D", "E", "B", "U", "G">>
W_Views == <<"V", "i", "e", "w", "s", ":", " ">>
W_ActiveRecord == <<"A", "c", "t", "i", "v", "e", "R", "e", "c", "o", "r", "d", ":", " ">>
W_Allocations == <<"A", "l", "l", "o", "c", "a", "t", "i", "o", "n", "s", ":", " ">>
W_ms == <<"m", "s">>
W_User == <<"U", "s", "e", "r">>
W_Post == <<"P", "o", "s", "t">>
W_SchemaMigration ==
  <<"S", "c", "h", "e", "m", "a", "M", "i", "g", "r", "a", "t", "i", "o", "n">>
W_ArInternalMetadata ==
  <<"A", "r", "I", "n", "t", "e", "r", "n", "a", "l", "M", "e", "t", "a", "d", "a", "t", "a">>

(***************************************************************************)
(* LogFileBase.PID_PATTERN = \[.*?\s(#\d{1,})\]                             *)
(* A match is described by <<i, j>>: "[" at i, the whitespace at j, "#" at *)
(* j + 1, then the digits (all of them: "]" must end them) and "]"; "."     *)
(* does not match a newline.                                                *)
(***************************************************************************)
PidMatches(s) ==
  {m \in (1..Len(s)) \X (1..Len(s)) :
     /\ m[1] < m[2]
     /\ s[m[1]] = "["
     /\ s[m[2]] \in Whitespace
     /\ m[2] + 1 <= Len(s)
     /\ s[m[2] + 1] = "#"
     /\ \A k \in (m[1] + 1)..(m[2] - 1) : s[k] # "\n"
     /\ LET e == RunEnd(s, m[2] + 2, Digits)
        IN  e >= m[2] + 2 /\ e + 1 <= Len(s) /\ s[e + 1] = "]"}

\* PID_PATTERN.search(s).group(1), or None: the leftmost start, then the
\* shortest ".*?".
PID_PATTERN_search(s) ==
  LET ms == PidMatches(s)
  IN  IF ms = {} THEN None
      ELSE LET i == Min({m[1] : m \in ms})
               j == Min({m[2] : m \in {n \in ms : n[1] = i}})
           IN  Some(Slice(s, j + 1, RunEnd(s, j + 2, Digits)))

(***************************************************************************)
(* Controller.PATTERN = [A-Za-z]*Controller\#[^\s]+                         *)
(***************************************************************************)
W_ControllerHash == W_Controller \o <<"#">>

\* Starts i from which the pattern matches: letters, then "Controller#" at
\* m, then at least one non-whitespace character.
ControllerStarts(s) ==
  {i \in 1..Len(s) :
     \E m \in i..Len(s) :
       /\ \A k \in i..(m - 1) : IsLetter(s[k])
       /\ MatchLit(s, m, W_ControllerHash)
       /\ m + Len(W_ControllerHash) <= Len(s)
       /\ s[m + Len(W_ControllerHash)] \notin Whitespace}

\* Controller.PATTERN.search(s).group(0), or None.
Controller_PATTERN_search(s) ==
  LET st == ControllerStarts(s)
  IN  IF st = {} THEN None
      ELSE LET i == Min(st)
               m == CHOOSE n \in i..Len(s) :
                      /\ \A k \in i..(n - 1) : IsLetter(s[k])
                      /\ MatchLit(s, n, W_ControllerHash)
               a == m + Len(W_ControllerHash)
               e == CHOOSE f \in a..Len(s) :
                      /\ \A k \in a..f : s[k] \notin Whitespace
                      /\ (f = Len(s) \/ s[f + 1] \in Whitespace)
           IN  Some(Slice(s, i, e))

\* controller.py DataStruct, with pid still unset.
Controller_extract_additional_data(log_line) ==
  LET match == Controller_PATTERN_search(log_line)
  IN  IF match = None THEN None
      ELSE Some([pid |-> None, controller_name |-> match])

(***************************************************************************)
(* Metrics: <label>(\d+)(?:\.(\d+))?ms  and  Allocations: (\d+)             *)
(***************************************************************************)
\* The match of label(\d+)(?:\.(\d+))?ms at start i, as <<group1, group2>>
\* (group2 is None when the fraction is absent), or None.
TimeMatchAt(s, i, label) ==
  IF ~MatchLit(s, i, label) THEN None
  ELSE LET a  == i + Len(label)
           e1 == RunEnd(s, a, Digits)
       IN  IF e1 < a THEN None
           ELSE IF MatchLit(s, e1 + 1, W_ms) THEN Some(<<Slice(s, a, e1), None>>)
           ELSE IF e1 + 1 <= Len(s) /\ s[e1 + 1] = "."
             THEN LET e2 == RunEnd(s, e1 + 2, Digits)
                  IN  IF e2 >= e1 + 2 /\ MatchLit(s, e2 + 1, W_ms)
                        THEN Some(<<Slice(s, a, e1), Some(Slice(s, e1 + 2, e2))>>)
                        ELSE None
           ELSE None

\* pattern.search(s): the match at the leftmost start, or None.
TimeSearch(s, label) ==
  LET st == {i \in 1..Len(s) : TimeMatchAt(s, i, label) # None}
  IN  IF st = {} THEN None ELSE TimeMatchAt(s, Min(st), label)

\* ALLOCATION_PATTERN.search(s).group(1), or None.
AllocationSearch(s) ==
  LET st == {i \in 1..Len(s) :
               /\ MatchLit(s, i, W_Allocations)
               /\ RunEnd(s, i + Len(W_Allocations), Digits) >= i + Len(W_Allocations)}
  IN  IF st = {} THEN None
      ELSE LET a == Min(st) + Len(W_Allocations)
           IN  Some(Slice(s, a, RunEnd(s, a, Digits)))

\* Metrics.__extract_decimal: Decimal(f'{group1}.{group2 or "0"}'), kept as
\* coefficient and exponent, which is what Decimal keeps.
extract_decimal(match) ==
  LET decimal_part == IF match[2] # None THEN Val(match[2]) ELSE <<"0">>
  IN  [coef |-> DigitsToInt(match[1] \o decimal_part), exp |-> 0 - Len(decimal_part)]

\* extract_additional_data asking for all three matches.
Metrics_extract_all_required(log_line) ==
  IF ~Contains(log_line, W_INFO) THEN None
  ELSE LET views_match == TimeSearch(log_line, W_Views)
           duration_match == TimeSearch(log_line, W_ActiveRecord)
           allocation_match == AllocationSearch(log_line)
       IN  IF views_match = None \/ duration_match = None \/ allocation_match = None
             THEN None
             ELSE Some([pid |-> None,
                        views |-> Some(extract_decimal(Val(views_match))),
                        duration |-> Some(extract_decimal(Val(duration_match))),
                        allocation |-> Some(DigitsToInt(Val(allocation_match)))])

\* extract_additional_data content with a match of any of the three.
Metrics_extract_any_match(log_line) ==
  IF ~Contains(log_line, W_INFO) THEN None
  ELSE LET views_match == TimeSearch(log_line, W_Views)
           duration_match == TimeSearch(log_line, W_ActiveRecord)
           allocation_match == AllocationSearch(log_line)
       IN  IF views_match = None /\ duration_match = None /\ allocation_match = None
             THEN None
             ELSE Some([pid |-> None,
                        views |-> IF views_match # None
                                    THEN Some(extract_decimal(Val(views_match)))
                                    ELSE None,
                        duration |-> IF duration_match # None
                                       THEN Some(extract_decimal(Val(duration_match)))
                                       ELSE None,
                        allocation |-> IF allocation_match # None
                                         THEN Some(DigitsToInt(Val(allocation_match)))
                                         ELSE None])

\* Metrics.extract_additional_data, returning the metrics.py DataStruct with
\* pid still unset.
Metrics_extract_additional_data(log_line) ==
  IF ~Contains(log_line, W_INFO) THEN None
  ELSE LET views_match == TimeSearch(log_line, W_Views)
           duration_match == TimeSearch(log_line, W_ActiveRecord)
           allocation_match == AllocationSearch(log_line)
       IN  IF views_match = None THEN None
           ELSE Some([pid |-> None,
                      views |-> Some(extract_decimal(Val(views_match))),
                      duration |-> IF duration_match # None
                                     THEN Some(extract_decimal(Val(duration_match)))
                                     ELSE None,
                      allocation |-> IF allocation_match # None
                                       THEN Some(DigitsToInt(Val(allocation_match)))
                                       ELSE None])

(***************************************************************************)
(* Model: an alternation of the class names derived from the tables of the  *)
(* database, without the excluded names.                                    *)
(***************************************************************************)
EXCLUDE_CLASS_NAMES == {W_ArInternalMetadata, W_SchemaMigration}

\* The class names __modelname_into_regexp derives from SHOW TABLES, in the
\* order the database returns them.
TableClassNames == <<W_SchemaMigration, W_User, W_Post>>

\* filter(lambda el: el not in EXCLUDE_CLASS_NAMES, ...)
Model_PATTERN == SelectSeq(TableClassNames, LAMBDA el : el \notin EXCLUDE_CLASS_NAMES)

\* Model.PATTERN.search(s).group(0), or None: the leftmost position at which
\* an alternative matches, and there the first alternative that does.
Model_PATTERN_search(s) ==
  LET alts == Model_PATTERN
      st == {i \in 1..Len(s) : \E a \in 1..Len(alts) : MatchLit(s, i, alts[a])}
  IN  IF st = {} THEN None
      ELSE LET i == Min(st)
               a == Min({b \in 1..Len(alts) : MatchLit(s, i, alts[b])})
           IN  Some(alts[a])

\* model.py DataStruct, with pid still unset.
Model_extract_additional_data(log_line) ==
  IF ~Contains(log_line, W_DEBUG) THEN None
  ELSE LET match == Model_PATTERN_search(log_line)
       IN  IF match = None THEN None
           ELSE Some([pid |-> None, class_name |-> match])

(***************************************************************************)
(* The extractor classes and the dispatch of extract_additional_data.       *)
(***************************************************************************)
Classes == {"Controller", "Metrics", "Model"}

extract_additional_data(cls, log_line) ==
  CASE cls = "Controller" -> Controller_extract_additional_data(log_line)
    [] cls = "Metrics" -> Metrics_extract_additional_data(log_line)
    [] cls = "Model" -> Model_extract_additional_data(log_line)

\* _init_entity without the return on a missing process id.
init_entity_unchecked(cls, log_line) ==
  LET pid_match == PID_PATTERN_search(log_line)
      additional_data == extract_additional_data(cls, log_line)
  IN  IF additional_data = None THEN None
      ELSE Some([Val(additional_data) EXCEPT !.pid = pid_match])

\* LogFileBase._init_entity: None stands for the False it returns.
init_entity(cls, log_line) ==
  LET pid_match == PID_PATTERN_search(log_line)
  IN  IF pid_match = None THEN None
      ELSE LET additional_data == extract_additional_data(cls, log_line)
           IN  IF additional_data = None THEN None
               ELSE Some([Val(additional_data) EXCEPT !.pid = pid_match])

(***************************************************************************)
(* File names and the name pattern of tasks.py:                             *)
(*   re.compile(rf'{rails_env}.log.\d{{6}}')                                *)
(* A pattern is a sequence of single-character classes.                     *)
(***************************************************************************)
RotationDigits == 6

Lit(ch) == [kind |-> "lit", ch |-> ch]
AnyChar == [kind |-> "any", ch |-> "."]
Digit == [kind |-> "digit", ch |-> "d"]

ClassMatches(cl, ch) ==
  CASE cl.kind = "lit" -> ch = cl.ch
    [] cl.kind = "any" -> ch # "\n"
    [] cl.kind = "digit" -> ch \in Digits

W_production == <<"p", "r", "o", "d", "u", "c", "t", "i", "o", "n">>
W_log == <<"l", "o", "g">>

LitSeq(w) == [k \in 1..Len(w) |-> Lit(w[k])]

log_name_pattern(rails_env) ==
  LitSeq(rails_env) \o <<AnyChar>> \o LitSeq(W_log) \o <<AnyChar>>
    \o [k \in 1..RotationDigits |-> Digit]

\* The pattern matches s from position i on.
PatternMatchesAt(pat, s, i) ==
  /\ i + Len(pat) - 1 <= Len(s)
  /\ \A k \in 1..Len(pat) : ClassMatches(pat[k], s[i + k - 1])

\* re.Pattern.search in the place of match: a match anywhere in the string.
re_search(pat, s) == \E i \in 1..Len(s) : PatternMatchesAt(pat, s, i)

\* re.Pattern.match: a match at the start of the string only.
re_match(pat, s) == PatternMatchesAt(pat, s, 1)

N_exact == W_production \o <<".">> \o W_log \o <<".", "0", "0", "0", "0", "0", "1">>
N_trailing == W_production \o <<".">> \o W_log \o <<".", "0", "0", "0", "0", "0", "2", ".", "g", "z">>
N_later == <<"o", "l", "d", ".">> \o W_production \o <<".">> \o W_log
             \o <<".", "0", "0", "0", "0", "0", "3">>

\* The file names a logs directory is drawn from.
NameSet == {N_exact, N_trailing, N_later}

(***************************************************************************)
(* Log lines.                                                               *)
(***************************************************************************)
W_App42 == <<"[", "A", "p", "p", " ", "#", "4", "2", "]">>
W_Job7 == <<"[", "J", "o", "b", " ", "#", "7", "]">>
W_UsersShow == <<"U", "s", "e", "r", "s">> \o W_Controller \o <<"#", "s", "h", "o", "w">>
W_PostsIndex == <<"P", "o", "s", "t", "s">> \o W_Controller \o <<"#", "i", "n", "d", "e", "x">>

\* "[App #42] INFO UsersController#show Views: 12.5ms ActiveRecord: 3ms
\*  Allocations: 400 DEBUG User"
L_app == W_App42 \o <<" ">> \o W_INFO \o <<" ">> \o W_UsersShow \o <<" ">>
           \o W_Views \o <<"1", "2", ".", "5">> \o W_ms \o <<" ">>
           \o W_ActiveRecord \o <<"3">> \o W_ms \o <<" ">>
           \o W_Allocations \o <<"4", "0", "0", " ">> \o W_DEBUG \o <<" ">> \o W_User
           \o <<"\n">>

\* "[Job #7] INFO PostsController#index Views: 5ms DEBUG Post"
L_job == W_Job7 \o <<" ">> \o W_INFO \o <<" ">> \o W_PostsIndex \o <<" ">>
           \o W_Views \o <<"5">> \o W_ms \o <<" ">> \o W_DEBUG \o <<" ">> \o W_Post
           \o <<"\n">>

\* "INFO UsersController#show Views: 5ms DEBUG User": no process id token.
L_nopid == W_INFO \o <<" ">> \o W_UsersShow \o <<" ">> \o W_Views \o <<"5">> \o W_ms
             \o <<" ">> \o W_DEBUG \o <<" ">> \o W_User \o <<"\n">>

\* "[Job #7] WARN": a process id token and nothing an extractor looks for.
L_plain == W_Job7 \o <<" ", "W", "A", "R", "N", "\n">>

\* The lines a log file is drawn from.
LineSet == {L_app, L_job, L_nopid, L_plain}

(***************************************************************************)
(* Lines for the Metrics extractor: a process id token or none, a severity, *)
(* and for each of the three measures no token, a token the pattern matches *)
(* or a token it does not match.                                            *)
(***************************************************************************)
W_WARN == <<"W", "A", "R", "N">>

PidParts == {<<>>, W_Job7 \o <<" ">>}

SeverityParts == {W_INFO \o <<" ">>, W_WARN \o <<" ">>}

\* "", "Views: 5ms ", "Views: 12.5ms ", "Views: 5s "
ViewsParts ==
  {<<>>,
   W_Views \o <<"5">> \o W_ms \o <<" ">>,
   W_Views \o <<"1", "2", ".", "5">> \o W_ms \o <<" ">>,
   W_Views \o <<"5", "s", " ">>}

\* "", "ActiveRecord: 3ms ", "ActiveRecord: 0.75ms ", "ActiveRecord: ms "
DurationParts ==
  {<<>>,
   W_ActiveRecord \o <<"3">> \o W_ms \o <<" ">>,
   W_ActiveRecord \o <<"0", ".", "7", "5">> \o W_ms \o <<" ">>,
   W_ActiveRecord \o W_ms \o <<" ">>}

\* "", "Allocations: 400", "Allocations: none"
AllocationParts ==
  {<<>>,
   W_Allocations \o <<"4", "0", "0">>,
   W_Allocations \o <<"n", "o", "n", "e">>}

MetricsLineSet ==
  {p \o sv \o v \o d \o a \o <<"\n">> :
     p \in PidParts, sv \in SeverityParts, v \in ViewsParts,
     d \in DurationParts, a \in AllocationParts}

\* _init_entity on the lines above, computed once per class and line.
entity_of ==
  [c \in Classes |-> [l \in LineSet \cup MetricsLineSet |-> init_entity(c, l)]]

(***************************************************************************)
(* Bounds.                                                                  *)
(***************************************************************************)
\* Files in the logs directory.
MaxFiles == 2

\* Lines in the logs directory, over all its files.
MaxLines == 2

\* Calls of export_tsv in a run.
MaxCalls == 2

(***************************************************************************)
(* State.                                                                   *)
(***************************************************************************)
VARIABLES
  logsDirExists,  \* os.path.exists(logs_dir)
  listing,        \* os.listdir(logs_dir): the file names, in listing order
  content,        \* content[i]: the lines of file listing[i]
  data_list,      \* data_list[c]: self.data_list of the instance of class c
  data_src,       \* data_src[c][k]: <<file, line>> position data_list[c][k] was built from
  pc,             \* position of the running export_tsv call, "idle" outside
  cur,            \* class of the instance whose export_tsv runs (or ran last)
  pattern,        \* log_name_pattern of the call
  fileIdx,        \* position of `for log in log_files`
  lineIdx,        \* position of `for line in log_file`
  open_handles,   \* names of the log files currently open
  outDirExists,   \* the output directory tmp/<output_folder> exists
  outFile,        \* outFile[c]: the table <class name lowercased>.tsv, or None
  log,            \* what the call has logged so far
  opened,         \* the files the call has opened so far, in order
  writes,         \* how often the call has written its table
  outcome,        \* "none", "running", "returned" or "raised"
  startOut,       \* outFile[cur] when the call started
  startData,      \* data_list[cur] when the call started
  calls,          \* export_tsv calls so far
  task            \* position of export_rails_log_data and what it has done

vars == <<logsDirExists, listing, content, data_list, data_src, pc,
          cur, pattern, fileIdx, lineIdx, open_handles, outDirExists, outFile,
          log, opened, writes, outcome, startOut, startData, calls, task>>

fsVars == <<logsDirExists, listing, content>>

SeqsUpTo(S, n) == UNION {[1..k -> S] : k \in 0..n}

RECURSIVE SumLen(_)
SumLen(ss) == IF ss = <<>> THEN 0 ELSE Len(ss[1]) + SumLen(Tail(ss))

\* The name patterns export_tsv is called with.
PatternSet == {log_name_pattern(W_production)}

(***************************************************************************)
(* pandas.DataFrame(data_list).to_csv(sep='\t', index=False): a header of   *)
(* the dataclass fields in declaration order and one row per record, in     *)
(* order.  A cell is the field's value (None is an empty cell).             *)
(***************************************************************************)
Fields(cls) ==
  CASE cls = "Controller" -> <<"pid", "controller_name">>
    [] cls = "Metrics" -> <<"pid", "views", "duration", "allocation">>
    [] cls = "Model" -> <<"pid", "class_name">>

to_csv(cls, records) ==
  [header |-> Fields(cls),
   rows |-> [k \in 1..Len(records) |->
               [f \in 1..Len(Fields(cls)) |-> records[k][Fields(cls)[f]]]]]

LogEntry(level, msg, file) == [level |-> level, msg |-> msg, file |-> file]

\* The extractor classes in the order export_rails_log_data takes them.
task_classes == <<"Controller", "Metrics", "Model">>

\* export_rails_log_data is not running.
TaskNotRunning ==
  [stage |-> "idle", idx |-> 0, attempted |-> <<>>, exported |-> <<>>,
   printed |-> <<>>]

(***************************************************************************)
(* Init: a logs directory (or none), one instance of each extractor class   *)
(* as its constructor leaves it, no output.                                 *)
(***************************************************************************)
Init ==
  /\ logsDirExists \in BOOLEAN
  /\ listing \in {l \in SeqsUpTo(NameSet, MaxFiles) :
                    /\ \A i, j \in 1..Len(l) : i # j => l[i] # l[j]
                    /\ (~logsDirExists => l = <<>>)}
  /\ content \in {c \in [1..Len(listing) -> SeqsUpTo(LineSet, MaxLines)] :
                    SumLen(c) <= MaxLines}
  /\ data_list = [c \in Classes |-> <<>>]
  /\ data_src = [c \in Classes |-> <<>>]
  /\ pc = "idle"
  /\ cur = "Controller"
  /\ pattern = log_name_pattern(W_production)
  /\ fileIdx = 0
  /\ lineIdx = 0
  /\ open_handles = {}
  /\ outDirExists = FALSE
  /\ outFile = [c \in Classes |-> None]
  /\ log = <<>>
  /\ opened = <<>>
  /\ writes = 0
  /\ outcome = "none"
  /\ startOut = None
  /\ startData = <<>>
  /\ calls = 0
  /\ task = TaskNotRunning

(***************************************************************************)
(* InitMetrics: as Init, with a logs directory of one file the pattern does *)
(* not select and one it selects, which holds one of the Metrics lines.     *)
(***************************************************************************)
InitMetrics ==
  /\ logsDirExists = TRUE
  /\ listing = <<N_later, N_exact>>
  /\ content \in {<<<<>>, <<l>>>> : l \in MetricsLineSet}
  /\ data_list = [c \in Classes |-> <<>>]
  /\ data_src = [c \in Classes |-> <<>>]
  /\ pc = "idle"
  /\ cur = "Controller"
  /\ pattern = log_name_pattern(W_production)
  /\ fileIdx = 0
  /\ lineIdx = 0
  /\ open_handles = {}
  /\ outDirExists = FALSE
  /\ outFile = [c \in Classes |-> None]
  /\ log = <<>>
  /\ opened = <<>>
  /\ writes = 0
  /\ outcome = "none"
  /\ startOut = None
  /\ startData = <<>>
  /\ calls = 0
  /\ task = TaskNotRunning

(***************************************************************************)
(* LogFileBase.__init__ (through the subclass constructors): a new instance *)
(* of class c, with an empty data_list, takes the place of the one in use.  *)
(***************************************************************************)
LogFileBase_init(c) ==
  /\ data_list' = [data_list EXCEPT ![c] = <<>>]
  /\ data_src' = [data_src EXCEPT ![c] = <<>>]

\* A caller constructs an instance of class c between two calls.
Construct(c) ==
  /\ pc = "idle"
  /\ LogFileBase_init(c)
  /\ UNCHANGED <<fsVars, task, pc, cur, pattern, fileIdx, lineIdx, open_handles,
                 outDirExists, outFile, log, opened, writes, outcome, startOut,
                 startData, calls>>

(***************************************************************************)
(* export_tsv, lines 56-61: the call, the check of the logs directory and   *)
(* the listing.                                                             *)
(***************************************************************************)
export_tsv(c, log_name_pat) ==
  /\ pc = "idle"
  /\ calls' = calls + 1
  /\ cur' = c
  /\ pattern' = log_name_pat
  /\ opened' = <<>>
  /\ writes' = 0
  /\ startOut' = outFile[c]
  /\ startData' = data_list[c]
  /\ IF ~logsDirExists
       THEN /\ log' = <<LogEntry("error", "Log directory not found", <<>>)>>
            /\ outcome' = "returned"
            /\ pc' = "idle"
            /\ UNCHANGED fileIdx
       ELSE /\ log' = <<>>
            /\ outcome' = "running"
            /\ pc' = "loop"
            /\ fileIdx' = 1
  /\ lineIdx' = 0
  /\ UNCHANGED <<fsVars, data_list, data_src, open_handles, outDirExists, outFile>>

\* export_tsv without the return on a missing logs directory.
ExportCall_no_dir_check(c, log_name_pat) ==
  /\ pc = "idle"
  /\ calls < MaxCalls
  /\ calls' = calls + 1
  /\ cur' = c
  /\ pattern' = log_name_pat
  /\ opened' = <<>>
  /\ writes' = 0
  /\ startOut' = outFile[c]
  /\ startData' = data_list[c]
  /\ log' = IF ~logsDirExists
              THEN <<LogEntry("error", "Log directory not found", <<>>)>>
              ELSE <<>>
  /\ outcome' = "running"
  /\ pc' = "loop"
  /\ fileIdx' = 1
  /\ lineIdx' = 0
  /\ UNCHANGED <<fsVars, task, data_list, data_src, open_handles, outDirExists, outFile>>

\* A caller calls export_tsv on the instance of class c.
ExportCall(c, log_name_pat) ==
  /\ calls < MaxCalls
  /\ export_tsv(c, log_name_pat)
  /\ UNCHANGED task

\* export_tsv, lines 62-64: a listed name the pattern does not match.
SkipFile ==
  /\ pc = "loop"
  /\ fileIdx <= Len(listing)
  /\ ~re_match(pattern, listing[fileIdx])
  /\ fileIdx' = fileIdx + 1
  /\ UNCHANGED <<fsVars, task, data_list, data_src, pc, cur, pattern,
                 lineIdx, open_handles, outDirExists, outFile, log, opened, writes,
                 outcome, startOut, startData, calls>>

\* __convert_log_into_array, lines 136-137: the file opens.
OpenFile ==
  /\ pc = "loop"
  /\ fileIdx <= Len(listing)
  /\ re_match(pattern, listing[fileIdx])
  /\ log' = Append(log, LogEntry("info", "Starting to process log file", listing[fileIdx]))
  /\ open_handles' = open_handles \cup {listing[fileIdx]}
  /\ opened' = Append(opened, listing[fileIdx])
  /\ lineIdx' = 1
  /\ pc' = "read"
  /\ UNCHANGED <<fsVars, task, data_list, data_src, cur, pattern, fileIdx,
                 outDirExists, outFile, writes, outcome, startOut, startData, calls>>

\* The OSError of open logged and swallowed: the loop goes on to the next file.
OpenFault_swallowed ==
  /\ pc = "loop"
  /\ fileIdx <= Len(listing)
  /\ re_match(pattern, listing[fileIdx])
  /\ log' = log \o <<LogEntry("info", "Starting to process log file", listing[fileIdx]),
                     LogEntry("exception", "Error opening file", listing[fileIdx])>>
  /\ fileIdx' = fileIdx + 1
  /\ UNCHANGED <<fsVars, task, data_list, data_src, pc, cur, pattern,
                 lineIdx, open_handles, outDirExists, outFile, opened, writes,
                 outcome, startOut, startData, calls>>

\* __convert_log_into_array, lines 137 and 145-147: open raises OSError, which
\* is logged and raised again; export_tsv does not catch it.
OpenFault ==
  /\ pc = "loop"
  /\ fileIdx <= Len(listing)
  /\ re_match(pattern, listing[fileIdx])
  /\ log' = log \o <<LogEntry("info", "Starting to process log file", listing[fileIdx]),
                     LogEntry("exception", "Error opening file", listing[fileIdx])>>
  /\ outcome' = "raised"
  /\ pc' = "idle"
  /\ UNCHANGED <<fsVars, task, data_list, data_src, cur, pattern, fileIdx,
                 lineIdx, open_handles, outDirExists, outFile, opened, writes,
                 startOut, startData, calls>>

\* data_list as an attribute of the class LogFileBase: one list for all.
ReadLine_shared_list ==
  /\ pc = "read"
  /\ lineIdx <= Len(content[fileIdx])
  /\ LET line == content[fileIdx][lineIdx]
         entity == entity_of[cur][line]
     IN  IF entity # None
           THEN /\ data_list' = [c \in Classes |-> Append(data_list[c], Val(entity))]
                /\ data_src' = [c \in Classes |-> Append(data_src[c], <<fileIdx, lineIdx>>)]
           ELSE UNCHANGED <<data_list, data_src>>
  /\ lineIdx' = lineIdx + 1
  /\ UNCHANGED <<fsVars, task, pc, cur, pattern, fileIdx, open_handles,
                 outDirExists, outFile, log, opened, writes, outcome, startOut,
                 startData, calls>>

\* __convert_log_into_array, lines 138-141: one line of the open file.
ReadLine ==
  /\ pc = "read"
  /\ lineIdx <= Len(content[fileIdx])
  /\ LET line == content[fileIdx][lineIdx]
         entity == entity_of[cur][line]
     IN  IF entity # None
           THEN /\ data_list' = [data_list EXCEPT ![cur] = Append(@, Val(entity))]
                /\ data_src' = [data_src EXCEPT ![cur] = Append(@, <<fileIdx, lineIdx>>)]
           ELSE UNCHANGED <<data_list, data_src>>
  /\ lineIdx' = lineIdx + 1
  /\ UNCHANGED <<fsVars, task, pc, cur, pattern, fileIdx, open_handles,
                 outDirExists, outFile, log, opened, writes, outcome, startOut,
                 startData, calls>>

\* The file opened without the with statement: a fault leaves it open.
ReadFault_leaves_open ==
  /\ pc = "read"
  /\ log' = Append(log, LogEntry("exception", "Error opening file", listing[fileIdx]))
  /\ outcome' = "raised"
  /\ pc' = "idle"
  /\ UNCHANGED <<fsVars, task, data_list, data_src, cur, pattern, fileIdx,
                 lineIdx, open_handles, outDirExists, outFile, opened, writes,
                 startOut, startData, calls>>

\* __convert_log_into_array, lines 138 and 145-147: reading raises OSError;
\* the with statement closes the file, the error is logged and raised again.
ReadFault ==
  /\ pc = "read"
  /\ open_handles' = open_handles \ {listing[fileIdx]}
  /\ log' = Append(log, LogEntry("exception", "Error opening file", listing[fileIdx]))
  /\ outcome' = "raised"
  /\ pc' = "idle"
  /\ UNCHANGED <<fsVars, task, data_list, data_src, cur, pattern, fileIdx,
                 lineIdx, outDirExists, outFile, opened, writes, startOut,
                 startData, calls>>

\* The test of __convert_log_into_array, line 143.
NoDataWarning(dl) == dl = <<>>

\* __convert_log_into_array, lines 143-144 and the end of the with statement:
\* the lines are exhausted, the warning is decided and the file is closed.
CloseFile ==
  /\ pc = "read"
  /\ lineIdx > Len(content[fileIdx])
  /\ log' = IF NoDataWarning(data_list[cur])
              THEN Append(log, LogEntry("warning", "No data extracted from log file",
                                        listing[fileIdx]))
              ELSE log
  /\ open_handles' = open_handles \ {listing[fileIdx]}
  /\ fileIdx' = fileIdx + 1
  /\ pc' = "loop"
  /\ UNCHANGED <<fsVars, task, data_list, data_src, cur, pattern, lineIdx,
                 outDirExists, outFile, opened, writes, outcome, startOut,
                 startData, calls>>

\* export_tsv writing the table without the test of data_list.
Finish_unconditional ==
  /\ pc = "loop"
  /\ fileIdx > Len(listing)
  /\ outDirExists' = TRUE
  /\ outFile' = [outFile EXCEPT ![cur] = Some(to_csv(cur, data_list[cur]))]
  /\ writes' = writes + 1
  /\ log' = Append(log, LogEntry("info", "Data exported to", <<>>))
  /\ outcome' = "returned"
  /\ pc' = "idle"
  /\ UNCHANGED <<fsVars, task, data_list, data_src, cur, pattern, fileIdx,
                 lineIdx, open_handles, opened, startOut, startData, calls>>

\* export_tsv, lines 67-77: the listing is exhausted; the output directory is
\* made and the table is written, or the warning is logged.
Finish ==
  /\ pc = "loop"
  /\ fileIdx > Len(listing)
  /\ outDirExists' = TRUE
  /\ IF data_list[cur] # <<>>
       THEN /\ outFile' = [outFile EXCEPT ![cur] = Some(to_csv(cur, data_list[cur]))]
            /\ writes' = writes + 1
            /\ log' = Append(log, LogEntry("info", "Data exported to", <<>>))
       ELSE /\ log' = Append(log, LogEntry("warning", "No data found to export", <<>>))
            /\ UNCHANGED <<outFile, writes>>
  /\ outcome' = "returned"
  /\ pc' = "idle"
  /\ UNCHANGED <<fsVars, task, data_list, data_src, cur, pattern, fileIdx,
                 lineIdx, open_handles, opened, startOut, startData, calls>>

(***************************************************************************)
(* tasks.py, export_rails_log_data: for cls in [Controller, Metrics, Model] *)
(* an instance is constructed and its export_tsv is called, inside a try    *)
(* whose handler prints what was raised.                                    *)
(***************************************************************************)
\* The class of the current turn of the loop.
TaskClass == task_classes[task.idx]

\* The loop goes on to its next turn, or the task returns.
TaskAdvance(t) ==
  IF t.idx < Len(task_classes)
    THEN [t EXCEPT !.stage = "construct", !.idx = t.idx + 1]
    ELSE [t EXCEPT !.stage = "done"]

\* Lines 23 and 26: the task is called and the loop starts.
TaskStart ==
  /\ task.stage = "idle"
  /\ pc = "idle"
  /\ task' = [task EXCEPT !.stage = "construct", !.idx = 1]
  /\ UNCHANGED <<fsVars, data_list, data_src, pc, cur, pattern, fileIdx, lineIdx,
                 open_handles, outDirExists, outFile, log, opened, writes, outcome,
                 startOut, startData, calls>>

\* Line 28, instance = cls(): the constructor returns.
TaskConstruct ==
  /\ task.stage = "construct"
  /\ LogFileBase_init(TaskClass)
  /\ task' = [task EXCEPT !.stage = "export", !.attempted = Append(@, TaskClass)]
  /\ UNCHANGED <<fsVars, pc, cur, pattern, fileIdx, lineIdx, open_handles,
                 outDirExists, outFile, log, opened, writes, outcome, startOut,
                 startData, calls>>

\* Line 28 for Model: the constructor reads the table names from the
\* database (model.py, lines 44 and 69-164) and raises when the .env file or
\* the connection fails; no instance is made.
TaskConstructFault ==
  /\ task.stage = "construct"
  /\ TaskClass = "Model"
  /\ task' = [task EXCEPT !.stage = "except", !.attempted = Append(@, TaskClass)]
  /\ UNCHANGED <<fsVars, data_list, data_src, pc, cur, pattern, fileIdx, lineIdx,
                 open_handles, outDirExists, outFile, log, opened, writes, outcome,
                 startOut, startData, calls>>

\* Line 29: instance.export_tsv(log_name_pattern, data_folder) is called.
TaskExport ==
  /\ task.stage = "export"
  /\ \E p \in PatternSet : export_tsv(TaskClass, p)
  /\ task' = [task EXCEPT !.stage = "in_export"]

\* Line 29: export_tsv has returned; the turn is over.
TaskReturn ==
  /\ task.stage = "in_export"
  /\ pc = "idle"
  /\ outcome = "returned"
  /\ task' = TaskAdvance([task EXCEPT !.exported = Append(@, TaskClass)])
  /\ UNCHANGED <<fsVars, data_list, data_src, pc, cur, pattern, fileIdx, lineIdx,
                 open_handles, outDirExists, outFile, log, opened, writes, outcome,
                 startOut, startData, calls>>

\* Line 29: export_tsv has raised; the exception reaches the try statement.
TaskRaise ==
  /\ task.stage = "in_export"
  /\ pc = "idle"
  /\ outcome = "raised"
  /\ task' = [task EXCEPT !.stage = "except"]
  /\ UNCHANGED <<fsVars, data_list, data_src, pc, cur, pattern, fileIdx, lineIdx,
                 open_handles, outDirExists, outFile, log, opened, writes, outcome,
                 startOut, startData, calls>>

\* The try statement around the whole loop: the handler ends the task.
TaskExcept_ends_loop ==
  /\ task.stage = "except"
  /\ task' = [task EXCEPT !.stage = "done", !.printed = Append(@, TaskClass)]
  /\ UNCHANGED <<fsVars, data_list, data_src, pc, cur, pattern, fileIdx, lineIdx,
                 open_handles, outDirExists, outFile, log, opened, writes, outcome,
                 startOut, startData, calls>>

\* Lines 30-31, except Exception: the error is printed; the turn is over.
TaskExcept ==
  /\ task.stage = "except"
  /\ task' = TaskAdvance([task EXCEPT !.printed = Append(@, TaskClass)])
  /\ UNCHANGED <<fsVars, data_list, data_src, pc, cur, pattern, fileIdx, lineIdx,
                 open_handles, outDirExists, outFile, log, opened, writes, outcome,
                 startOut, startData, calls>>

Next ==
  \/ \E c \in Classes : Construct(c)
  \/ \E c \in Classes, p \in PatternSet : ExportCall(c, p)
  \/ SkipFile
  \/ OpenFile
  \/ OpenFault
  \/ ReadLine
  \/ ReadFault
  \/ CloseFile
  \/ Finish

Spec == Init /\ [][Next]_vars

\* The extractors applied to the Metrics lines.
SpecMetrics == InitMetrics /\ [][Next]_vars

NextTask ==
  \/ TaskStart
  \/ TaskConstruct
  \/ TaskConstructFault
  \/ TaskExport
  \/ TaskReturn
  \/ TaskRaise
  \/ TaskExcept
  \/ SkipFile
  \/ OpenFile
  \/ OpenFault
  \/ ReadLine
  \/ ReadFault
  \/ CloseFile
  \/ Finish

\* One run of export_rails_log_data.
SpecTask == Init /\ [][NextTask]_vars

(***************************************************************************)
(* Properties.                                                              *)
(***************************************************************************)
\* The line a record of data_list was built from.
SrcLine(c, k) == content[data_src[c][k][1]][data_src[c][k][2]]

\* The line has a token "[", anything but a newline, a whitespace, "#", one
\* or more digits, "]".
HasPidToken(s) ==
  \E i \in 1..Len(s) :
    /\ s[i] = "["
    /\ \E j \in (i + 1)..Len(s) :
         /\ s[j] \in Whitespace
         /\ \A k \in (i + 1)..(j - 1) : s[k] # "\n"
         /\ j + 1 <= Len(s) /\ s[j + 1] = "#"
         /\ \E e \in (j + 3)..Len(s) :
              /\ s[e] = "]"
              /\ \A k \in (j + 2)..(e - 1) : s[k] \in Digits

\* C1: every Record of every extractor's data_list has a process id that is
\* present, non-empty and a substring of the line the Record was built from,
\* and that line has the "[... #<digits>]" token: a line without the token
\* yields no Record, whatever the extractor's own pattern finds in it.
C1_RecordsCarryPid ==
  \A c \in Classes :
    /\ Len(data_src[c]) = Len(data_list[c])
    /\ \A k \in 1..Len(data_list[c]) :
         /\ data_list[c][k].pid # None
         /\ Val(data_list[c][k].pid) # <<>>
         /\ HasPidToken(SrcLine(c, k))
         /\ Contains(SrcLine(c, k), Val(data_list[c][k].pid))

\* A line without the token, which the extractor's own pattern matches, has
\* been read into an instance that holds a Record.
C1_Witness ==
  /\ pc = "read"
  /\ lineIdx > 1
  /\ content[fileIdx][lineIdx - 1] = L_nopid
  /\ data_list[cur] # <<>>
  /\ extract_additional_data(cur, L_nopid) # None

\* The lines of file i that pass both the Process-ID Correlator and the Line
\* Matcher of class c, as their number.
PassingLines(c, i) ==
  Cardinality({k \in 1..Len(content[i]) :
                 /\ HasPidToken(content[i][k])
                 /\ entity_of[c][content[i][k]] # None})

RECURSIVE SumPassing(_, _, _)
\* PassingLines summed over the files i..Len(listing) the pattern pat selects.
SumPassing(c, pat, i) ==
  IF i > Len(listing) THEN 0
  ELSE (IF re_match(pat, listing[i]) THEN PassingLines(c, i) ELSE 0)
         + SumPassing(c, pat, i + 1)

\* C2: an export call that writes its table where an earlier call, with the
\* same filter and the same unchanged logs directory, wrote one, writes the
\* same content, also when both calls are made on the same instance.
C2_ExportIdempotent ==
  (outcome = "returned" /\ writes = 1 /\ startOut # None)
    => outFile[cur] = startOut

\* C3: the table an export call writes has as many rows as the files selected
\* by the filter have lines that pass both the correlator and the matcher.
C3_RowCount ==
  (outcome = "returned" /\ writes = 1)
    => Len(Val(outFile[cur]).rows) = SumPassing(cur, pattern, 1)

\* Position of a file name in the listing.
ListingPos(name) == CHOOSE i \in 1..Len(listing) : listing[i] = name

\* C4: once a selected file could not be opened, the call has raised: it is
\* over, the fault is the last thing it logged, it has opened no file listed
\* after the faulty one and it has neither written nor changed its table.
C4_OpenFaultAborts ==
  \A k \in 1..Len(log) :
    log[k].level = "exception" =>
      /\ k = Len(log)
      /\ outcome = "raised"
      /\ pc = "idle"
      /\ writes = 0
      /\ outFile[cur] = startOut
      /\ \A n \in 1..Len(opened) : ListingPos(opened[n]) <= ListingPos(log[k].file)

\* A file could not be opened after an earlier file of the same call had
\* contributed Records.
C4_Witness ==
  /\ outcome = "raised"
  /\ fileIdx > 1
  /\ \A n \in 1..Len(opened) : opened[n] # listing[fileIdx]
  /\ Len(data_list[cur]) > Len(startData)

\* C5: when an export call returns, it has logged the warning of every
\* selected file that has no line yielding a Record.
C5_WarningPerEmptyFile ==
  (outcome = "returned" /\ logsDirExists) =>
    \A i \in 1..Len(listing) :
      (re_match(pattern, listing[i]) /\ PassingLines(cur, i) = 0) =>
        \E k \in 1..Len(log) :
          log[k].level = "warning" /\ log[k].file = listing[i]

\* C6: without a logs directory every export call has logged the one error
\* and returned, and no file is ever opened, no Record appended and no output
\* file or output directory made.
C6_MissingLogsDir ==
  ~logsDirExists =>
    /\ outcome \in {"none", "returned"}
    /\ pc = "idle"
    /\ outcome = "returned" =>
         log = <<LogEntry("error", "Log directory not found", <<>>)>>
    /\ opened = <<>>
    /\ open_handles = {}
    /\ \A c \in Classes : data_list[c] = <<>> /\ outFile[c] = None
    /\ ~outDirExists

\* An export call was made without a logs directory.
C6_Witness == ~logsDirExists /\ outcome = "returned" /\ calls > 0

\* The files of the listing the pattern selects.
Selected == {listing[i] : i \in {j \in 1..Len(listing) : re_match(pattern, listing[j])}}

\* C7: a step writes the table only once in a call and only when the listing
\* is exhausted and every selected file has been opened; the step that ends
\* the scan writes the table of data_list exactly when data_list is not
\* empty, and logs the warning and leaves the table alone when it is empty.
C7_WriteOnceAtEnd ==
  [][/\ (writes' > writes \/ outFile' # outFile) =>
          /\ writes' <= 1
          /\ pc = "loop" /\ fileIdx > Len(listing)
          /\ \A n \in Selected : \E k \in 1..Len(opened) : opened[k] = n
          /\ open_handles = {}
     /\ (pc = "loop" /\ fileIdx > Len(listing)) =>
          IF data_list[cur] # <<>>
            THEN /\ writes' = 1
                 /\ outFile' = [outFile EXCEPT ![cur] = Some(to_csv(cur, data_list[cur]))]
            ELSE /\ writes' = 0
                 /\ outFile' = outFile
                 /\ log'[Len(log')] = LogEntry("warning", "No data found to export", <<>>)
    ]_vars

\* A table was written after two files were scanned.
C7_Witness == writes = 1 /\ Len(opened) = 2 /\ outcome = "returned"

\* C8: the Records of data_list are in the order of the listing and, within
\* a file, in the order of its lines.
C8_ScanOrder ==
  \A c \in Classes : \A a, b \in 1..Len(data_src[c]) :
    a < b =>
      \/ data_src[c][a][1] < data_src[c][b][1]
      \/ data_src[c][a][1] = data_src[c][b][1] /\ data_src[c][a][2] < data_src[c][b][2]

\* C9: the process id of a Record is the numeral of the token: "42" for a
\* line with "[App #42]" and "7" for a line with "[Job #7]".
C9_PidIsNumeral ==
  \A c \in Classes : \A k \in 1..Len(data_list[c]) :
    /\ Contains(SrcLine(c, k), W_App42) => data_list[c][k].pid = Some(<<"4", "2">>)
    /\ Contains(SrcLine(c, k), W_Job7) => data_list[c][k].pid = Some(<<"7">>)

\* The name starts with <rails_env>, any character, "log", any character and
\* RotationDigits digits.
StartsWithLogName(rails_env, s) ==
  LET n == Len(rails_env)
  IN  /\ Len(s) >= n + 5 + RotationDigits
      /\ Slice(s, 1, n) = rails_env
      /\ s[n + 1] # "\n"
      /\ Slice(s, n + 2, n + 4) = W_log
      /\ s[n + 5] # "\n"
      /\ \A k \in (n + 6)..(n + 5 + RotationDigits) : s[k] \in Digits

\* C10: an export call opens only names that start with a match of the
\* filter, and when it returns it has opened every such name of the listing:
\* a name with more characters after the match is opened, a name where the
\* match starts later is not.
C10_PrefixFilter ==
  /\ \A k \in 1..Len(opened) : StartsWithLogName(W_production, opened[k])
  /\ (outcome = "returned" /\ logsDirExists) =>
       \A i \in 1..Len(listing) :
         StartsWithLogName(W_production, listing[i]) =>
           \E k \in 1..Len(opened) : opened[k] = listing[i]

\* A call returned that opened the name with trailing characters and had the
\* name with the later match in its listing.
C10_Witness ==
  /\ outcome = "returned"
  /\ \E k \in 1..Len(opened) : opened[k] = N_trailing
  /\ \E i \in 1..Len(listing) : listing[i] = N_later

(***************************************************************************)
(* The Metrics extractor.                                                   *)
(***************************************************************************)
\* Somewhere in s: the label, one or more digits, optionally "." and one or
\* more digits, then "ms".
HasTimeToken(s, label) ==
  \E i \in 1..Len(s) :
    /\ MatchLit(s, i, label)
    /\ \E e \in (i + Len(label))..Len(s) :
         /\ \A k \in (i + Len(label))..e : s[k] \in Digits
         /\ \/ MatchLit(s, e + 1, W_ms)
            \/ /\ e + 1 <= Len(s) /\ s[e + 1] = "."
               /\ \E f \in (e + 2)..Len(s) :
                    /\ \A k \in (e + 2)..f : s[k] \in Digits
                    /\ MatchLit(s, f + 1, W_ms)

\* Somewhere in s: "Allocations: " and a digit.
HasAllocationToken(s) ==
  \E i \in 1..Len(s) :
    /\ MatchLit(s, i, W_Allocations)
    /\ i + Len(W_Allocations) <= Len(s)
    /\ s[i + Len(W_Allocations)] \in Digits

\* The lines of the open file the Metrics extractor has read so far.
MetricsLinesRead ==
  IF cur = "Metrics" /\ pc = "read" THEN 1..(lineIdx - 1) ELSE {}

\* C11: every record of the Metrics extractor has its duration exactly when
\* the line it was built from has an ActiveRecord token and its allocation
\* exactly when the line has an Allocations token, whatever the other does;
\* and every line read that is tagged INFO and has a process id token and a
\* Views token has given a record, whichever of the two it lacks.
C11_OptionalFieldsIndependent ==
  /\ \A k \in 1..Len(data_list["Metrics"]) :
       /\ data_list["Metrics"][k].duration # None
            <=> HasTimeToken(SrcLine("Metrics", k), W_ActiveRecord)
       /\ data_list["Metrics"][k].allocation # None
            <=> HasAllocationToken(SrcLine("Metrics", k))
  /\ \A j \in MetricsLinesRead :
       ( /\ HasPidToken(content[fileIdx][j])
         /\ Contains(content[fileIdx][j], W_INFO)
         /\ HasTimeToken(content[fileIdx][j], W_Views) )
       => \E k \in 1..Len(data_src["Metrics"]) :
            data_src["Metrics"][k] = <<fileIdx, j>>

\* A record with an allocation and no duration, built from a line with an
\* Allocations token and no ActiveRecord token.
C11_Witness ==
  \E k \in 1..Len(data_list["Metrics"]) :
    /\ data_list["Metrics"][k].duration = None
    /\ data_list["Metrics"][k].allocation # None
    /\ ~Contains(SrcLine("Metrics", k), W_ActiveRecord)
    /\ Contains(SrcLine("Metrics", k), W_Allocations)

\* C12: every record of the Metrics extractor was built from a line that is
\* tagged INFO and has a Views token; a line read that lacks either has given
\* no record, whatever other tokens it has.
C12_NoMatchNoRecord ==
  /\ \A k \in 1..Len(data_list["Metrics"]) :
       /\ Contains(SrcLine("Metrics", k), W_INFO)
       /\ HasTimeToken(SrcLine("Metrics", k), W_Views)
  /\ \A j \in MetricsLinesRead :
       ( \/ ~Contains(content[fileIdx][j], W_INFO)
         \/ ~HasTimeToken(content[fileIdx][j], W_Views) )
       => \A k \in 1..Len(data_src["Metrics"]) :
            data_src["Metrics"][k] # <<fileIdx, j>>

\* The Metrics extractor has read a line tagged INFO with a process id token,
\* an ActiveRecord token and an Allocations token but no Views token, and
\* holds no record.
C12_Witness ==
  /\ \E j \in MetricsLinesRead :
       /\ HasPidToken(content[fileIdx][j])
       /\ Contains(content[fileIdx][j], W_INFO)
       /\ HasTimeToken(content[fileIdx][j], W_ActiveRecord)
       /\ HasAllocationToken(content[fileIdx][j])
       /\ ~HasTimeToken(content[fileIdx][j], W_Views)
  /\ data_list["Metrics"] = <<>>

(***************************************************************************)
(* Instances, file handles, the task and the output location.               *)
(***************************************************************************)
Range(f) == {f[k] : k \in DOMAIN f}

IsPrefix(a, b) == Len(a) <= Len(b) /\ a = [k \in 1..Len(a) |-> b[k]]

RECURSIVE RecordsOfLines(_, _)
\* The records an instance of class c builds from the lines, in order.
RecordsOfLines(c, lines) ==
  IF lines = <<>> THEN <<>>
  ELSE (IF entity_of[c][lines[1]] # None THEN <<Val(entity_of[c][lines[1]])>> ELSE <<>>)
         \o RecordsOfLines(c, Tail(lines))

RECURSIVE ScanAlone(_, _, _)
\* The records a new instance of class c, run on its own, accumulates from
\* the files i..Len(listing) the pattern pat selects.
ScanAlone(c, pat, i) ==
  IF i > Len(listing) THEN <<>>
  ELSE (IF re_match(pat, listing[i]) THEN RecordsOfLines(c, content[i]) ELSE <<>>)
         \o ScanAlone(c, pat, i + 1)

\* C13: in a run of the task, an extractor not yet constructed has no record
\* and no table; the records of every constructed one are the first records
\* of what it accumulates when run on its own, and all of them once its
\* export has returned, when its table is the table of exactly those records
\* (no table when there are none); an export that raised has written none.
C13_InstancesIsolated ==
  \A c \in Classes :
    /\ c \notin Range(task.attempted) => data_list[c] = <<>> /\ outFile[c] = None
    /\ IsPrefix(data_list[c], ScanAlone(c, pattern, 1))
    /\ c \in Range(task.exported) =>
         /\ data_list[c] = IF logsDirExists THEN ScanAlone(c, pattern, 1) ELSE <<>>
         /\ outFile[c] = IF data_list[c] # <<>>
                           THEN Some(to_csv(c, data_list[c]))
                           ELSE None
    /\ c \in Range(task.printed) => outFile[c] = None

\* The task is over, all three exports have returned and the Controller and
\* the Metrics instance each hold records and have written their table.
C13_Witness ==
  /\ task.stage = "done"
  /\ task.exported = task_classes
  /\ data_list["Controller"] # <<>> /\ outFile["Controller"] # None
  /\ data_list["Metrics"] # <<>> /\ outFile["Metrics"] # None

\* C14: at most one log file is open; none is open outside a call, nor
\* between two files or when the table is written; while lines are read the
\* open file is the one being read.
C14_OneHandleClosedOnExit ==
  /\ Cardinality(open_handles) <= 1
  /\ pc = "idle" => open_handles = {}
  /\ pc = "loop" => open_handles = {}
  /\ pc = "read" => open_handles = {listing[fileIdx]}

\* A call has raised on a fault while reading the file it had opened, and no
\* file is open.
C14_Witness ==
  /\ outcome = "raised"
  /\ pc = "idle"
  /\ opened # <<>>
  /\ opened[Len(opened)] = listing[fileIdx]
  /\ open_handles = {}

\* C15: the task attempts the extractors in the order Controller, Metrics,
\* Model; every turn that is over has either returned from its export or had
\* its error printed; and when the task is done all three have been
\* attempted, whatever was raised on the way.
C15_TaskAttemptsAll ==
  /\ IsPrefix(task.attempted, task_classes)
  /\ Len(task.attempted) <= task.idx
  /\ \A i \in 1..Len(task.attempted) :
       (i < task.idx \/ task.stage = "done") =>
         (task_classes[i] \in Range(task.exported)) # (task_classes[i] \in Range(task.printed))
  /\ task.stage = "done" => task.attempted = task_classes

\* The task is done: the export of Controller raised and was printed, the
\* construction of Model failed and was printed, and Metrics was exported.
C15_Witness ==
  /\ task.stage = "done"
  /\ task.printed = <<"Controller", "Model">>
  /\ task.exported = <<"Metrics">>

\* C16: the step that ends a scan which has yielded no record leaves the
\* output directory and the tables as they were.
C16_ZeroRecordsNoOutput ==
  [][(pc = "loop" /\ fileIdx > Len(listing) /\ data_list[cur] = <<>> /\ pc' = "idle")
       => (outDirExists' = outDirExists /\ outFile' = outFile)]_vars

====
